---- MODULE Spec2Model ----
(***************************************************************************)
(* A model of validate-fastlane-supply-metadata (src/main.go): one run of  *)
(* main over a metadata tree.  The tree is the input, chosen by Init and    *)
(* never changed by the program; the checkers are pure functions of the     *)
(* tree and are operators; main is the state machine.                       *)
(***************************************************************************)
EXTENDS Integers, Sequences, FiniteSets, TLC

VARIABLES
    fs,                   \* the metadata tree (read-only input)
    enableGAAnnotations,  \* flag enable-ga-annotations
    pc,                   \* position of main
    i,                    \* index of the range loop over the root listing
    errs,                 \* main's errs slice
    j,                    \* index of the range loop over errs
    out,                  \* the lines written so far, in order
    exitCode,             \* process exit code, -1 while running
    calls                 \* history: the checker calls main has made, in order

vars == <<fs, enableGAAnnotations, pc, i, errs, j, out, exitCode, calls>>

(***************************************************************************)
(* Bounds of the model.                                                    *)
(***************************************************************************)
MaxLocales == 2      \* entries in the metadata root listing
MaxChangelogs == 2   \* entries in a changelogs/ listing
MaxImages == 2       \* entries in an images/ listing
MaxShots == 2        \* entries in a *Screenshots/ listing

(***************************************************************************)
(* Strings and paths.                                                      *)
(***************************************************************************)
Max(a, b) == IF a >= b THEN a ELSE b
Min(a, b) == IF a <= b THEN a ELSE b

\* strings.HasSuffix
HasSuffix(s, suffix) ==
    /\ Len(s) >= Len(suffix)
    /\ SubSeq(s, Len(s) - Len(suffix) + 1, Len(s)) = suffix

\* strings.TrimSuffix
TrimSuffix(s, suffix) ==
    IF HasSuffix(s, suffix) THEN SubSeq(s, 1, Len(s) - Len(suffix)) ELSE s

\* filepath.Ext of a name without separators: the suffix beginning at the
\* final dot, empty when there is no dot.
Ext(name) ==
    LET dots == {k \in 1..Len(name) : SubSeq(name, k, k) = "."}
    IN  IF dots = {} THEN ""
        ELSE LET last == CHOOSE k \in dots : \A m \in dots : m <= k
             IN  SubSeq(name, last, Len(name))

\* filepath.Join of a directory and one element
Join(dir, name) == dir \o "/" \o name

\* strings.ReplaceAll for a one-character pattern: the characters of s from
\* position k on, each occurrence of old replaced by new.
RECURSIVE ReplaceFrom(_, _, _, _)
ReplaceFrom(s, k, old, new) ==
    IF k > Len(s) THEN ""
    ELSE (IF SubSeq(s, k, k) = old THEN new ELSE SubSeq(s, k, k))
         \o ReplaceFrom(s, k + 1, old, new)

ReplaceAll(s, old, new) == ReplaceFrom(s, 1, old, new)

\* filepath.Join(fastlanePath, "metadata", "android") for the default flag value
metadataPath == "fastlane/metadata/android"

(***************************************************************************)
(* Text files.  The content of a file is a sequence of runs of one rune:   *)
(* [r |-> rune, n |-> repetitions].                                        *)
(***************************************************************************)
\* The runes of the contents: "a", "e-acute" (two bytes), "space", "newline".
\* bytes of the UTF-8 encoding of a rune
RuneBytes(r) == IF r = "e-acute" THEN 2 ELSE 1

\* unicode.IsSpace
IsSpace(r) == r \in {"space", "newline"}

\* strings.TrimSpace: the content from its first to its last rune that is no
\* white space.
TrimSpace(runs) ==
    LET solid == {k \in DOMAIN runs : ~IsSpace(runs[k].r)}
    IN  IF solid = {} THEN <<>>
        ELSE SubSeq(runs, CHOOSE k \in solid : \A m \in solid : k <= m,
                          CHOOSE k \in solid : \A m \in solid : m <= k)

\* utf8.RuneCountInString
RECURSIVE RuneCountInString(_)
RuneCountInString(runs) ==
    IF runs = <<>> THEN 0 ELSE Head(runs).n + RuneCountInString(Tail(runs))

\* len of the string in bytes
RECURSIVE ByteLen(_)
ByteLen(runs) ==
    IF runs = <<>> THEN 0
    ELSE Head(runs).n * RuneBytes(Head(runs).r) + ByteLen(Tail(runs))

\* A text file: status "ok", "absent" or "denied", and its content.
TextFile(runs) == [status |-> "ok", runs |-> runs]
NoTextFile(status) == [status |-> status, runs |-> <<>>]

\* getCharacterCount with len in place of utf8.RuneCountInString
getCharacterCountBytes(file) ==
    IF file.status # "ok" THEN [count |-> 0, err |-> TRUE]
    ELSE [count |-> ByteLen(TrimSpace(file.runs)), err |-> FALSE]

getCharacterCount(file) ==
    IF file.status # "ok" THEN [count |-> 0, err |-> TRUE]
    ELSE [count |-> RuneCountInString(TrimSpace(file.runs)), err |-> FALSE]

(***************************************************************************)
(* Report entries.  ve tells a *validationError from a plain error; file   *)
(* is the path the entry names; text and args are the message.             *)
(***************************************************************************)
IOError(text, path) == [ve |-> FALSE, file |-> path, text |-> text, args |-> <<>>]
validationError(path, text, args) ==
    [ve |-> TRUE, file |-> path, text |-> text, args |-> args]

descriptiveFileLengths ==
    [f \in {"title.txt", "short_description.txt", "full_description.txt"} |->
        CASE f = "title.txt" -> 50
          [] f = "short_description.txt" -> 80
          [] f = "full_description.txt" -> 4000]

maxContentLength == 500

\* One iteration of the loop of checkDescriptiveTexts.
checkTextFile(path, file, length) ==
    LET res == getCharacterCount(file)
    IN  IF res.err THEN <<IOError("failed to read file", path)>>
        ELSE IF res.count > length
        THEN <<validationError(path, "content length exceeded", <<length, res.count>>)>>
        ELSE <<>>

\* checkDescriptiveTexts; order is the iteration order of the map.
RECURSIVE checkDescriptiveTexts(_, _, _)
checkDescriptiveTexts(localePath, texts, order) ==
    IF order = <<>> THEN <<>>
    ELSE LET file == Head(order)
         IN  checkTextFile(Join(localePath, file), texts[file],
                           descriptiveFileLengths[file])
             \o checkDescriptiveTexts(localePath, texts, Tail(order))

\* The body of the loop of checkChangelogs for one listing entry.
checkChangelogFile(path, entry) ==
    IF entry.isDir THEN <<>>
    ELSE LET res == getCharacterCount(entry.file)
         IN  (IF res.err THEN <<IOError("failed to read file", path)>> ELSE <<>>)
             \o (IF res.count > maxContentLength
                 THEN <<validationError(path, "content length exceeded",
                                        <<maxContentLength, res.count>>)>>
                 ELSE <<>>)

RECURSIVE checkChangelogFiles(_, _)
checkChangelogFiles(changelogsPath, files) ==
    IF files = <<>> THEN <<>>
    ELSE checkChangelogFile(Join(changelogsPath, Head(files).name), Head(files))
         \o checkChangelogFiles(changelogsPath, Tail(files))

\* checkChangelogs; dir.status is "ok", "absent" (not exist) or "denied".
checkChangelogs(changelogsPath, dir) ==
    IF dir.status = "denied"
    THEN <<IOError("failed to read directory", changelogsPath)>>
    ELSE checkChangelogFiles(changelogsPath,
                             IF dir.status = "ok" THEN dir.entries ELSE <<>>)

(***************************************************************************)
(* Image files.  status is the outcome of os.Open; format is what          *)
(* image.DecodeConfig recognises ("unknown" when it fails); body tells      *)
(* whether the full image.Decode succeeds; type is the Go type of the       *)
(* decoded image and alphas the alpha values that occur among its pixels    *)
(* (8-bit values, 16-bit ones for RGBA64 and NRGBA64; for Paletted the      *)
(* alpha values of the palette entries its pixels use).                     *)
(***************************************************************************)
Png(w, h, type, alphas) ==
    [status |-> "ok", format |-> "png", width |-> w, height |-> h,
     body |-> "ok", type |-> type, alphas |-> alphas]
PngTruncated(w, h) ==
    [status |-> "ok", format |-> "png", width |-> w, height |-> h,
     body |-> "corrupt", type |-> "none", alphas |-> {}]
Jpeg(w, h) ==
    [status |-> "ok", format |-> "jpeg", width |-> w, height |-> h,
     body |-> "ok", type |-> "YCbCr", alphas |-> {}]
NotAnImage ==
    [status |-> "ok", format |-> "unknown", width |-> 0, height |-> 0,
     body |-> "corrupt", type |-> "none", alphas |-> {}]
DeniedImage ==
    [status |-> "denied", format |-> "unknown", width |-> 0, height |-> 0,
     body |-> "corrupt", type |-> "none", alphas |-> {}]

\* The image types image/png decodes to; each has an Opaque method.
OpaqueTypes == {"Gray", "Gray16", "RGBA", "RGBA64", "NRGBA", "NRGBA64", "Paletted"}

\* The alpha value of an opaque pixel: 0xff, 0xffff for the 16-bit types.
FullAlpha(type) == IF type \in {"RGBA64", "NRGBA64"} THEN 65535 ELSE 255

\* Opaque that is satisfied by one opaque pixel
OpaqueSomePixel(img) ==
    IF img.type \in {"Gray", "Gray16"}
    THEN TRUE
    ELSE \E a \in img.alphas : a = FullAlpha(img.type)

\* The Opaque method of the decoded image: always true for Gray and Gray16,
\* true for the others when every pixel has full alpha.
Opaque(img) ==
    IF img.type \in {"Gray", "Gray16"}
    THEN TRUE
    ELSE \A a \in img.alphas : a = FullAlpha(img.type)

noConfig == [err |-> TRUE, width |-> 0, height |-> 0, opaque |-> FALSE, format |-> ""]

getImageConfig(img) ==
    IF img.status # "ok" THEN noConfig                       \* os.Open
    ELSE IF img.format = "unknown" THEN noConfig             \* image.DecodeConfig
    ELSE IF img.format = "png"
    THEN IF img.body # "ok" THEN noConfig                    \* image.Decode
         ELSE IF img.type \in OpaqueTypes
         THEN [err |-> FALSE, width |-> img.width, height |-> img.height,
               opaque |-> Opaque(img), format |-> img.format]
         ELSE noConfig
    ELSE [err |-> FALSE, width |-> img.width, height |-> img.height,
          opaque |-> FALSE, format |-> img.format]

\* math.Max(width, height) / math.Min(height, width) as a float64: the exact
\* quotient as integer part and remainder, +Inf and NaN for a zero divisor.
Ratio(width, height) ==
    LET mx == Max(width, height)
        mn == Min(height, width)
    IN  IF mn = 0
        THEN [class |-> IF mx = 0 THEN "NaN" ELSE "+Inf", int |-> 0, rem |-> 0, den |-> 0]
        ELSE [class |-> "finite", int |-> mx \div mn, rem |-> mx % mn, den |-> mn]

\* ratio >= 2.0
RatioAtLeast2(ratio) ==
    \/ ratio.class = "+Inf"
    \/ ratio.class = "finite" /\ ratio.int >= 2

\* ratio > 2.0
RatioAbove2(ratio) ==
    \/ ratio.class = "+Inf"
    \/ ratio.class = "finite" /\ (ratio.int > 2 \/ (ratio.int = 2 /\ ratio.rem > 0))

minEdge == 320
maxEdge == 3840

\* The body of the loop of checkScreenshots for one listing entry.
checkScreenshotFile(imagePath, entry) ==
    LET config == getImageConfig(entry.img)
        ratio == Ratio(config.width, config.height)
    IN  IF config.err THEN <<IOError("failed to read image", imagePath)>>
        ELSE (IF config.width < minEdge \/ config.width > maxEdge
              THEN <<validationError(imagePath, "width should be in range 320px-3840px",
                                     <<config.width>>)>>
              ELSE <<>>)
             \o (IF config.height < minEdge \/ config.height > maxEdge
                 THEN <<validationError(imagePath, "height should be in range 320px-3840px",
                                        <<config.height>>)>>
                 ELSE <<>>)
             \o (IF RatioAbove2(ratio)
                 THEN <<validationError(imagePath, "'max:min' edge radio should be at most 2.0",
                                        <<ratio>>)>>
                 ELSE <<>>)

RECURSIVE checkScreenshotFiles(_, _)
checkScreenshotFiles(screenshotsPath, files) ==
    IF files = <<>> THEN <<>>
    ELSE checkScreenshotFile(Join(screenshotsPath, Head(files).name), Head(files))
         \o checkScreenshotFiles(screenshotsPath, Tail(files))

\* checkScreenshots; any ReadDir error is reported.
checkScreenshots(screenshotsPath, dir) ==
    IF dir.status # "ok"
    THEN <<IOError("failed to read directory", screenshotsPath)>>
    ELSE checkScreenshotFiles(screenshotsPath, dir.entries)

\* The switch of checkImages on the name without extension.
imageKey(name) == TrimSuffix(name, Ext(name))

checkKeyedImage(filePath, name, config) ==
    LET dims(w, h, text) ==
            IF config.width # w \/ config.height # h
            THEN <<validationError(filePath, text, <<config.width, config.height>>)>>
            ELSE <<>>
        opaque(text) ==
            IF ~config.opaque THEN <<validationError(filePath, text, <<>>)>> ELSE <<>>
    IN  CASE name = "icon" ->
               (IF config.width # config.height \/ config.width # 512
                THEN <<validationError(filePath, "icon must be 512x512",
                                       <<config.width, config.height>>)>>
                ELSE <<>>)
               \o (IF config.format # "png"
                   THEN <<validationError(filePath, "icon must be a PNG", <<>>)>>
                   ELSE <<>>)
          [] name = "featureGraphic" ->
               dims(1024, 500, "featureGraphic must be 1024x500")
               \o opaque("featureGraphic must be opaque")
          [] name = "promoGraphic" ->
               dims(180, 120, "promoGraphic must be 180x120")
               \o opaque("promoGraphic must be opaque")
          [] name = "tvBanner" ->
               dims(1280, 720, "tvBanner must be 1280x720")
               \o opaque("tvBanner must be opaque")
          [] OTHER -> <<>>

\* The body of the loop of checkImages for one listing entry.
checkImageEntry(imagesPath, entry) ==
    IF entry.isDir
    THEN IF HasSuffix(entry.name, "Screenshots")
         THEN checkScreenshots(Join(imagesPath, entry.name), entry.dir)
         ELSE <<>>
    ELSE LET filePath == Join(imagesPath, entry.name)
             config == getImageConfig(entry.img)
         IN  IF config.err THEN <<IOError("failed to read image", filePath)>>
             ELSE checkKeyedImage(filePath, imageKey(entry.name), config)

\* The loop of checkImages, returning at the first image that cannot be read
\* instead of continuing
RECURSIVE checkImageEntriesReturn(_, _)
checkImageEntriesReturn(imagesPath, files) ==
    IF files = <<>> THEN <<>>
    ELSE IF ~Head(files).isDir /\ getImageConfig(Head(files).img).err
    THEN <<IOError("failed to read image", Join(imagesPath, Head(files).name))>>
    ELSE checkImageEntry(imagesPath, Head(files))
         \o checkImageEntriesReturn(imagesPath, Tail(files))

RECURSIVE checkImageEntries(_, _)
checkImageEntries(imagesPath, files) ==
    IF files = <<>> THEN <<>>
    ELSE checkImageEntry(imagesPath, Head(files))
         \o checkImageEntries(imagesPath, Tail(files))

\* checkImages without the os.IsNotExist exemption
checkImagesStrict(imagesPath, dir) ==
    IF dir.status # "ok"
    THEN <<IOError("failed to read directory", imagesPath)>>
    ELSE checkImageEntries(imagesPath, dir.entries)

\* checkImages; dir.status is "ok", "absent" (not exist) or "denied".
checkImages(imagesPath, dir) ==
    IF dir.status = "denied"
    THEN <<IOError("failed to read directory", imagesPath)>>
    ELSE checkImageEntries(imagesPath, IF dir.status = "ok" THEN dir.entries ELSE <<>>)

(***************************************************************************)
(* The metadata trees the runs are checked on.  A directory is             *)
(* [status, entries]: status "ok", "absent" or "denied", entries its        *)
(* listing, which ioutil.ReadDir returns sorted by file name.               *)
(***************************************************************************)
NoDir(status) == [status |-> status, entries |-> <<>>]
Dir(entries) == [status |-> "ok", entries |-> entries]

\* The listings of at most k entries out of the sorted names start..Len(opts),
\* the entry of the n-th name drawn from opts[n].
RECURSIVE Listings(_, _, _)
Listings(opts, start, k) ==
    IF k = 0 \/ start > Len(opts) THEN {<<>>}
    ELSE Listings(opts, start + 1, k)
         \cup {<<e>> \o rest : e \in opts[start], rest \in Listings(opts, start + 1, k - 1)}

\* Text contents around a limit of m characters.
TextContents(m) ==
    { <<>>,
      <<[r |-> "space", n |-> 3]>>,
      <<[r |-> "a", n |-> m]>>,
      <<[r |-> "a", n |-> m + 1]>>,
      <<[r |-> "space", n |-> 2], [r |-> "a", n |-> m], [r |-> "newline", n |-> 1]>>,
      <<[r |-> "e-acute", n |-> m]>>,
      <<[r |-> "a", n |-> m - 1], [r |-> "space", n |-> 1], [r |-> "e-acute", n |-> 1]>> }

TextFiles(m) ==
    {NoTextFile("absent"), NoTextFile("denied")} \cup {TextFile(c) : c \in TextContents(m)}

TextNames == {"title.txt", "short_description.txt", "full_description.txt"}

\* The iteration orders of the map descriptiveFileLengths.
TextOrders == {o \in [1..3 -> TextNames] : \A a, b \in 1..3 : a # b => o[a] # o[b]}

\* The three descriptive files of a locale.
Texts(title, short, full) ==
    [f \in TextNames |->
        CASE f = "title.txt" -> title
          [] f = "short_description.txt" -> short
          [] f = "full_description.txt" -> full]

GoodTexts == [f \in TextNames |-> TextFile(<<[r |-> "a", n |-> 10]>>)]

Locale(name, texts, images, changelogs) ==
    [name |-> name, isDir |-> TRUE, texts |-> texts, images |-> images,
     changelogs |-> changelogs]
RootFile(name) ==
    [name |-> name, isDir |-> FALSE, texts |-> GoodTexts, images |-> NoDir("absent"),
     changelogs |-> NoDir("absent")]

Tree(entries) == [status |-> "ok", entries |-> entries]
NoTree(status) == [status |-> status, entries |-> <<>>]

\* --- changelogs/ listings
ChangelogNames == <<"100.txt", "101.txt", "102.txt", "103.txt", "old">>

ChangelogEntry(name, isDir, file) == [name |-> name, isDir |-> isDir, file |-> file]

ChangelogOptions(name) ==
    {ChangelogEntry(name, TRUE, NoTextFile("denied"))}
    \cup {ChangelogEntry(name, FALSE, f) :
            f \in {NoTextFile("denied")} \cup {TextFile(c) : c \in TextContents(maxContentLength)}}

ChangelogDirs(k) ==
    {NoDir("absent"), NoDir("denied")}
    \cup {Dir(l) : l \in Listings([n \in DOMAIN ChangelogNames |->
                                     ChangelogOptions(ChangelogNames[n])], 1, k)}

\* --- images/ listings
ImageEntry(name, img) == [name |-> name, isDir |-> FALSE, img |-> img, dir |-> NoDir("absent")]
ImageDirEntry(name, dir) == [name |-> name, isDir |-> TRUE, img |-> NotAnImage, dir |-> dir]

\* The size a key requires and one it does not.
SizesFor(key) ==
    CASE key = "icon" -> {<<512, 512>>, <<511, 511>>}
      [] key = "featureGraphic" -> {<<1024, 500>>, <<1024, 512>>}
      [] key = "promoGraphic" -> {<<180, 120>>, <<120, 180>>}
      [] key = "tvBanner" -> {<<1280, 720>>, <<1024, 500>>}

KnownKeys == {"icon", "featureGraphic", "promoGraphic", "tvBanner"}

ImageFiles(key) ==
    IF key \in KnownKeys
    THEN {NotAnImage, PngTruncated(512, 512)}
         \cup UNION {{Png(d[1], d[2], "NRGBA", {255}), Png(d[1], d[2], "NRGBA", {0, 255}),
                      Jpeg(d[1], d[2])} : d \in SizesFor(key)}
         \cup {Png(512, 500, "Gray", {255}), Png(512, 500, "RGBA", {255}),
               Png(512, 500, "Paletted", {0, 255}), Png(512, 500, "NRGBA64", {255})}
    ELSE {NotAnImage, DeniedImage, Png(512, 512, "NRGBA", {254}), Jpeg(1, 1)}

ImageNames ==
    <<"Thumbs.db", "featureGraphic.jpg", "icon.old.png", "icon.png", "phoneScreenshots",
      "promoGraphic.png", "raw", "tvBanner">>
ImageDirNames == {"phoneScreenshots", "raw"}

OneShot(img) == Dir(<<ImageEntry("1.png", img)>>)

ImageOptions(name) ==
    IF name \in ImageDirNames
    THEN {ImageDirEntry(name, d) :
            d \in {NoDir("denied"), Dir(<<>>),
                   Dir(<<ImageEntry("1.png", NotAnImage), ImageEntry("2.png", Jpeg(300, 4000))>>)}}
    ELSE {ImageEntry(name, img) : img \in ImageFiles(imageKey(name))}

ImageDirs(k) ==
    {NoDir("absent"), NoDir("denied")}
    \cup {Dir(l) : l \in Listings([n \in DOMAIN ImageNames |-> ImageOptions(ImageNames[n])],
                                  1, k)}

\* --- *Screenshots/ listings
ShotNames == <<"1.png", "2.png", "3.jpg", "4.png">>

ShotSizes ==
    { <<300, 400>>, <<4000, 4000>>, <<640, 320>>, <<646, 320>>, <<320, 320>>,
      <<3840, 3840>>, <<319, 320>>, <<3841, 3840>>, <<320, 3841>>, <<320, 641>>,
      <<1080, 1920>>, <<640, 319>>, <<3840, 1920>>, <<300, 4000>> }

ShotImages ==
    {NotAnImage, PngTruncated(640, 320), Jpeg(641, 320)}
    \cup {Png(d[1], d[2], IF d[1] > d[2] THEN "NRGBA" ELSE "RGBA", {255}) : d \in ShotSizes}

ShotOptions(name) ==
    {ImageDirEntry(name, Dir(<<>>))} \cup {ImageEntry(name, img) : img \in ShotImages}

ShotDirs(k) ==
    {Dir(l) : l \in Listings([n \in DOMAIN ShotNames |-> ShotOptions(ShotNames[n])], 1, k)}

\* --- metadata roots
LocaleNames == <<"README.md", "de-DE", "en-US">>

Over(m) == TextFile(<<[r |-> "a", n |-> m + 1]>>)

BadTexts ==
    [GoodTexts EXCEPT !["title.txt"] = Over(50),
                      !["short_description.txt"] = NoTextFile("absent")]

GoodImages == Dir(<<ImageEntry("icon.png", Png(512, 512, "NRGBA", {255}))>>)
BadImages ==
    Dir(<<ImageEntry("icon.png", Jpeg(511, 511)),
          ImageDirEntry("phoneScreenshots", OneShot(NotAnImage))>>)

GoodChangelogs ==
    Dir(<<ChangelogEntry("100.txt", FALSE, TextFile(<<[r |-> "a", n |-> 10]>>))>>)
BadChangelogs ==
    Dir(<<ChangelogEntry("100.txt", FALSE, Over(maxContentLength)),
          ChangelogEntry("101.txt", FALSE, NoTextFile("denied"))>>)

\* The locales of the walk: a clean one, one category failing at a time, and
\* one with entries from all three categories.
WalkLocaleKinds ==
    { <<GoodTexts, NoDir("absent"), NoDir("absent")>>,
      <<GoodTexts, GoodImages, GoodChangelogs>>,
      <<BadTexts, NoDir("absent"), NoDir("absent")>>,
      <<GoodTexts, NoDir("denied"), NoDir("absent")>>,
      <<GoodTexts, BadImages, NoDir("absent")>>,
      <<GoodTexts, NoDir("absent"), NoDir("denied")>>,
      <<GoodTexts, NoDir("absent"), BadChangelogs>>,
      <<BadTexts, BadImages, BadChangelogs>> }

RootOptions(name) ==
    {RootFile(name)} \cup {Locale(name, k[1], k[2], k[3]) : k \in WalkLocaleKinds}

WalkTrees(k) ==
    {NoTree("absent"), NoTree("denied")}
    \cup {Tree(l) : l \in Listings([n \in DOMAIN LocaleNames |-> RootOptions(LocaleNames[n])],
                                   1, k)}

\* Trees every family of inputs holds: an unreadable root, and a root with a
\* plain file beside one locale.
BaseTrees ==
    { NoTree("absent"), NoTree("denied"),
      Tree(<<RootFile("README.md"),
             Locale("en-US", GoodTexts, NoDir("absent"), NoDir("absent"))>>) }

OneLocale(texts, images, changelogs) ==
    Tree(<<RootFile("README.md"), Locale("en-US", texts, images, changelogs)>>)

TextTrees(k) ==
    BaseTrees
    \cup {OneLocale(Texts(t, s, f),
                    NoDir("absent"), NoDir("absent")) :
            t \in TextFiles(50), s \in TextFiles(80), f \in TextFiles(4000)}
    \cup {OneLocale(GoodTexts, NoDir("absent"), d) : d \in ChangelogDirs(k)}

ImageTrees(k) ==
    BaseTrees \cup {OneLocale(GoodTexts, d, NoDir("absent")) : d \in ImageDirs(k)}

ShotTrees(k) ==
    BaseTrees
    \cup {OneLocale(GoodTexts, Dir(<<ImageDirEntry("phoneScreenshots", d)>>), NoDir("absent")) :
            d \in ShotDirs(k)}

(***************************************************************************)
(* main.                                                                   *)
(***************************************************************************)
InitOn(trees) ==
    /\ fs \in trees
    /\ enableGAAnnotations \in BOOLEAN
    /\ pc = "start"
    /\ i = 0
    /\ errs = <<>>
    /\ j = 0
    /\ out = <<>>
    /\ exitCode = -1
    /\ calls = <<>>

Init == InitOn(WalkTrees(MaxLocales))
InitTexts == InitOn(TextTrees(MaxChangelogs))
InitImages == InitOn(ImageTrees(MaxImages))
InitShots == InitOn(ShotTrees(MaxShots))

Line(stream, kind, file, text, args) ==
    [stream |-> stream, kind |-> kind, file |-> file, text |-> text, args |-> args]

\* The escaping of annotateGitHubFile: three ReplaceAll passes, each applied
\* to the result of the one before.
Escape(text) ==
    CHOOSE v \in {ReplaceAll(v2, "\n", "%0A") :
                    v2 \in {ReplaceAll(v1, "\r", "%0D") :
                              v1 \in {ReplaceAll(text, "%", "%25")}}} : TRUE

\* (*validationError).annotateGitHubFile
annotateGitHubFile(e) == Line("stdout", "annotation", e.file, Escape(e.text), e.args)

\* The lines main writes for one entry of errs, annotating every entry
reportLinesAnnotateAll(e) ==
    (IF enableGAAnnotations THEN <<annotateGitHubFile(e)>> ELSE <<>>)
    \o <<Line("stderr", "error", e.file, e.text, e.args)>>

\* The lines main writes for one entry of errs.
reportLines(e) ==
    (IF e.ve /\ enableGAAnnotations THEN <<annotateGitHubFile(e)>> ELSE <<>>)
    \o <<Line("stderr", "error", e.file, e.text, e.args)>>

localePath == Join(metadataPath, fs.entries[i].name)

\* A checker call of main: the checker, the root entry and what it returned.
Call(fn, entry, result) == [fn |-> fn, entry |-> entry, result |-> result]

\* ioutil.ReadDir(metadataPath) and the exit on its error
ReadRoot ==
    /\ pc = "start"
    /\ IF fs.status # "ok"
       THEN /\ out' = Append(out, Line("stderr", "fatal", metadataPath,
                                       "failed to read directory", <<>>))
            /\ exitCode' = 1
            /\ pc' = "exited"
            /\ i' = i
       ELSE /\ pc' = "range"
            /\ i' = 1
            /\ UNCHANGED <<out, exitCode>>
    /\ UNCHANGED <<fs, enableGAAnnotations, errs, j, calls>>

\* A root entry that is no directory is skipped.
SkipFile ==
    /\ pc = "range"
    /\ i <= Len(fs.entries)
    /\ ~fs.entries[i].isDir
    /\ i' = i + 1
    /\ UNCHANGED <<fs, enableGAAnnotations, pc, errs, j, out, exitCode, calls>>

DescriptiveTexts ==
    /\ pc = "range"
    /\ i <= Len(fs.entries)
    /\ fs.entries[i].isDir
    /\ \E order \in TextOrders :
          LET res == checkDescriptiveTexts(localePath, fs.entries[i].texts, order)
          IN  /\ errs' = errs \o res
              /\ calls' = Append(calls, Call("checkDescriptiveTexts", i, res))
    /\ pc' = "images"
    /\ UNCHANGED <<fs, enableGAAnnotations, i, j, out, exitCode>>

Images ==
    /\ pc = "images"
    /\ LET res == checkImages(Join(localePath, "images"), fs.entries[i].images)
       IN  /\ errs' = errs \o res
           /\ calls' = Append(calls, Call("checkImages", i, res))
    /\ pc' = "changelogs"
    /\ UNCHANGED <<fs, enableGAAnnotations, i, j, out, exitCode>>

\* The last check of a locale, ending the walk once an entry was found
ChangelogsStopOnError ==
    /\ pc = "changelogs"
    /\ LET res == checkChangelogs(Join(localePath, "changelogs"), fs.entries[i].changelogs)
       IN  /\ errs' = errs \o res
           /\ calls' = Append(calls, Call("checkChangelogs", i, res))
           /\ i' = IF errs \o res # <<>> THEN Len(fs.entries) + 1 ELSE i + 1
    /\ pc' = "range"
    /\ UNCHANGED <<fs, enableGAAnnotations, j, out, exitCode>>

Changelogs ==
    /\ pc = "changelogs"
    /\ LET res == checkChangelogs(Join(localePath, "changelogs"), fs.entries[i].changelogs)
       IN  /\ errs' = errs \o res
           /\ calls' = Append(calls, Call("checkChangelogs", i, res))
    /\ pc' = "range"
    /\ i' = i + 1
    /\ UNCHANGED <<fs, enableGAAnnotations, j, out, exitCode>>

\* fmt.Println("found", len(errs), "errors!")
Summary ==
    /\ pc = "range"
    /\ i > Len(fs.entries)
    /\ out' = Append(out, Line("stdout", "summary", "", "found errors!", <<Len(errs)>>))
    /\ pc' = "report"
    /\ j' = 1
    /\ UNCHANGED <<fs, enableGAAnnotations, i, errs, exitCode, calls>>

\* One iteration of the loop over errs.
Report ==
    /\ pc = "report"
    /\ j <= Len(errs)
    /\ out' = out \o reportLines(errs[j])
    /\ j' = j + 1
    /\ UNCHANGED <<fs, enableGAAnnotations, pc, i, errs, exitCode, calls>>

\* The end of main without the os.Exit(1)
ExitZero ==
    /\ pc = "report"
    /\ j > Len(errs)
    /\ exitCode' = 0
    /\ pc' = "exited"
    /\ UNCHANGED <<fs, enableGAAnnotations, i, errs, j, out, calls>>

\* The end of main: os.Exit(1) when errs is not empty, else the return.
Exit ==
    /\ pc = "report"
    /\ j > Len(errs)
    /\ exitCode' = IF Len(errs) > 0 THEN 1 ELSE 0
    /\ pc' = "exited"
    /\ UNCHANGED <<fs, enableGAAnnotations, i, errs, j, out, calls>>

Next ==
    \/ ReadRoot
    \/ SkipFile
    \/ DescriptiveTexts
    \/ Images
    \/ Changelogs
    \/ Summary
    \/ Report
    \/ Exit

Spec == Init /\ [][Next]_vars
SpecTexts == InitTexts /\ [][Next]_vars
SpecImages == InitImages /\ [][Next]_vars
SpecShots == InitShots /\ [][Next]_vars

\* main is one sequential thread: it takes its next step whenever it has one.
FairSpec == Init /\ [][Next]_vars /\ WF_vars(Next)

(***************************************************************************)
(* Properties.                                                             *)
(***************************************************************************)
HasPrefix(s, prefix) == Len(s) >= Len(prefix) /\ SubSeq(s, 1, Len(prefix)) = prefix

Exited == pc = "exited"
Walked == pc = "exited" /\ fs.status = "ok"

\* The root entries that are locales.
LocaleIdx == {k \in DOMAIN fs.entries : fs.entries[k].isDir}
PathOf(k) == Join(metadataPath, fs.entries[k].name)

\* The entries of the report that name a path, or a path under a directory.
EntriesAt(path) == {k \in DOMAIN errs : errs[k].file = path}
EntriesUnder(dir) == {k \in DOMAIN errs : HasPrefix(errs[k].file, dir)}

OutLines(kind) == {k \in DOMAIN out : out[k].kind = kind}

RECURSIVE Flatten(_)
Flatten(cs) == IF cs = <<>> THEN <<>> ELSE Head(cs).result \o Flatten(Tail(cs))

\* C1: main exits 0 iff the metadata root was readable and the report is
\* empty, exits 1 with one or more entries, and on an unreadable root exits 1
\* before any checker is called and without any report entry or report line.
C1_ExitContract ==
    /\ (pc # "exited") = (exitCode = -1)
    /\ Exited =>
        /\ exitCode \in {0, 1}
        /\ (exitCode = 0) = (fs.status = "ok" /\ Len(errs) = 0)
        /\ Len(errs) >= 1 => exitCode = 1
        /\ fs.status # "ok" =>
            /\ exitCode = 1
            /\ calls = <<>>
            /\ errs = <<>>
            /\ out = <<Line("stderr", "fatal", metadataPath, "failed to read directory", <<>>)>>

C1_Witness ==
    /\ Walked
    /\ LocaleIdx # {}
    /\ Len(errs) >= 1
    /\ exitCode = 1

\* C5: a locale without images/ has no report entry under its images path,
\* one without changelogs/ none under its changelogs path; the run goes on
\* with the other checks of the locale and with the later locales.
C5_OptionalDirs ==
    Walked =>
        /\ \A k \in LocaleIdx :
            /\ fs.entries[k].images.status = "absent"
                => EntriesUnder(Join(PathOf(k), "images")) = {}
            /\ fs.entries[k].changelogs.status = "absent"
                => EntriesUnder(Join(PathOf(k), "changelogs")) = {}
        /\ \A k \in LocaleIdx :
            \A fn \in {"checkDescriptiveTexts", "checkImages", "checkChangelogs"} :
                \E c \in DOMAIN calls : calls[c].fn = fn /\ calls[c].entry = k
        /\ \A c \in DOMAIN calls :
            /\ calls[c].fn = "checkImages" /\ fs.entries[calls[c].entry].images.status = "absent"
                => calls[c].result = <<>>
            /\ calls[c].fn = "checkChangelogs"
               /\ fs.entries[calls[c].entry].changelogs.status = "absent"
                => calls[c].result = <<>>

C5_Witness ==
    /\ Walked
    /\ \E k, m \in LocaleIdx :
        /\ k < m
        /\ fs.entries[k].images.status = "absent"
        /\ fs.entries[k].changelogs.status = "absent"
        /\ EntriesUnder(PathOf(k)) # {}
        /\ EntriesUnder(Join(PathOf(m), "images")) # {}

\* The calls a complete walk makes: the three checkers, in the order of main,
\* for every locale of the root listing in listing order.
RECURSIVE ExpectedCalls(_)
ExpectedCalls(k) ==
    IF k > Len(fs.entries) THEN <<>>
    ELSE (IF fs.entries[k].isDir
          THEN <<<<"checkDescriptiveTexts", k>>, <<"checkImages", k>>, <<"checkChangelogs", k>>>>
          ELSE <<>>)
         \o ExpectedCalls(k + 1)

WalkComplete ==
    /\ Len(calls) = Len(ExpectedCalls(1))
    /\ \A c \in DOMAIN calls : <<calls[c].fn, calls[c].entry>> = ExpectedCalls(1)[c]
    /\ errs = Flatten(calls)

\* C6: once the root has been read the walk runs to its end whatever was
\* found on the way: main eventually exits having called all three checkers
\* for every locale, and the report is the concatenation of all they returned.
C6_WalkNeverStops ==
    [](pc = "range" => <>(Exited /\ WalkComplete))

C6_Witness ==
    /\ Walked
    /\ WalkComplete
    /\ \E k, m \in LocaleIdx :
        /\ k < m
        /\ \E c \in DOMAIN calls : calls[c].entry = k /\ Len(calls[c].result) >= 2
        /\ \E c \in DOMAIN calls :
            calls[c].entry = m /\ calls[c].fn = "checkChangelogs" /\ calls[c].result # <<>>

\* The number of report entries of a tree, from the checkers alone.
RECURSIVE EntriesOfTree(_)
EntriesOfTree(k) ==
    IF k > Len(fs.entries) THEN 0
    ELSE (IF fs.entries[k].isDir
          THEN Len(checkDescriptiveTexts(PathOf(k), fs.entries[k].texts,
                                         CHOOSE o \in TextOrders : TRUE))
               + Len(checkImages(Join(PathOf(k), "images"), fs.entries[k].images))
               + Len(checkChangelogs(Join(PathOf(k), "changelogs"), fs.entries[k].changelogs))
          ELSE 0)
         + EntriesOfTree(k + 1)

\* C10 as stated: with annotations enabled every report entry, content
\* violation or I/O failure, has an annotation line.
C10_AnnotationPerEntry ==
    Walked /\ enableGAAnnotations =>
        Cardinality(OutLines("annotation")) = Len(errs)

\* C10 amended: with annotations enabled every content violation has exactly
\* one annotation line, written just before its human-readable line, and an
\* I/O failure has its human-readable line only; every entry has exactly one
\* human-readable line; the number of entries and the exit code depend on the
\* tree alone, not on the flag.
C10_AnnotationPerViolation ==
    Walked =>
        /\ Cardinality(OutLines("error")) = Len(errs)
        /\ Cardinality(OutLines("annotation")) =
             IF enableGAAnnotations THEN Cardinality({k \in DOMAIN errs : errs[k].ve}) ELSE 0
        /\ Cardinality(OutLines("summary")) = 1
        /\ Len(out) = 1 + Cardinality(OutLines("error")) + Cardinality(OutLines("annotation"))
        /\ \A k \in OutLines("annotation") :
            /\ out[k].stream = "stdout"
            /\ out[k + 1].kind = "error"
            /\ out[k + 1].file = out[k].file
            /\ out[k + 1].text = out[k].text
            /\ \E e \in DOMAIN errs : errs[e].ve /\ errs[e].file = out[k].file
        /\ Len(errs) = EntriesOfTree(1)
        /\ exitCode = IF EntriesOfTree(1) > 0 THEN 1 ELSE 0

C10_Witness ==
    /\ Walked
    /\ enableGAAnnotations
    /\ \E k \in DOMAIN errs : errs[k].ve
    /\ \E k \in DOMAIN errs : ~errs[k].ve
    /\ Cardinality(OutLines("annotation")) < Len(errs)

(***************************************************************************)
(* Properties of the text checks.                                          *)
(***************************************************************************)
RECURSIVE SumRunes(_, _)
SumRunes(runs, S) ==
    IF S = {} THEN 0
    ELSE LET k == CHOOSE x \in S : TRUE IN runs[k].n + SumRunes(runs, S \ {k})

\* The characters of a content that are left once the white space at its
\* start and at its end is taken away.
CharactersOf(runs) ==
    LET leading == {k \in DOMAIN runs : \A m \in 1..k : IsSpace(runs[m].r)}
        trailing == {k \in DOMAIN runs : \A m \in k..Len(runs) : IsSpace(runs[m].r)}
    IN  SumRunes(runs, DOMAIN runs \ (leading \cup trailing))

\* What the report holds for one text asset with the limit max.
TextRule(path, file, max) ==
    LET E == EntriesAt(path)
    IN  IF file.status # "ok"
        THEN /\ Cardinality(E) = 1
             /\ \A k \in E : ~errs[k].ve /\ errs[k].text = "failed to read file"
        ELSE IF CharactersOf(file.runs) <= max
        THEN E = {}
        ELSE /\ Cardinality(E) = 1
             /\ \A k \in E :
                  /\ errs[k].ve
                  /\ errs[k].text = "content length exceeded"
                  /\ errs[k].args = <<max, CharactersOf(file.runs)>>

ChangelogFiles(k) ==
    {e \in DOMAIN fs.entries[k].changelogs.entries :
        ~fs.entries[k].changelogs.entries[e].isDir}

\* C2: every descriptive text (limits 50, 80, 4000) and every file of
\* changelogs/ (limit 500) gives one I/O failure when it cannot be read, no
\* entry when its trimmed character count is within the limit, and one length
\* violation naming limit and count when it is above.
C2_TextLengths ==
    Walked =>
        \A k \in LocaleIdx :
            /\ TextRule(Join(PathOf(k), "title.txt"), fs.entries[k].texts["title.txt"], 50)
            /\ TextRule(Join(PathOf(k), "short_description.txt"),
                        fs.entries[k].texts["short_description.txt"], 80)
            /\ TextRule(Join(PathOf(k), "full_description.txt"),
                        fs.entries[k].texts["full_description.txt"], 4000)
            /\ \A e \in ChangelogFiles(k) :
                 TextRule(Join(Join(PathOf(k), "changelogs"),
                               fs.entries[k].changelogs.entries[e].name),
                          fs.entries[k].changelogs.entries[e].file, 500)

\* A locale whose title holds 50 two-byte characters, whose short description
\* is over the limit and whose full description is missing.
C2_Witness ==
    /\ Walked
    /\ \E k \in LocaleIdx :
        /\ fs.entries[k].texts["title.txt"].status = "ok"
        /\ ByteLen(fs.entries[k].texts["title.txt"].runs) > 50
        /\ EntriesAt(Join(PathOf(k), "title.txt")) = {}
        /\ \E e \in EntriesAt(Join(PathOf(k), "short_description.txt")) : errs[e].ve
        /\ \E e \in EntriesAt(Join(PathOf(k), "full_description.txt")) : ~errs[e].ve

(***************************************************************************)
(* Properties of the image checks.                                         *)
(***************************************************************************)
ImagesPathOf(k) == Join(PathOf(k), "images")
ImageEntries(k) == fs.entries[k].images.entries
ImageFilesOf(k) == {e \in DOMAIN ImageEntries(k) : ~ImageEntries(k)[e].isDir}

\* The key of a file name of images/, "" when it has none.
KeyOfName(name) ==
    CASE name \in {"icon.png"} -> "icon"
      [] name \in {"featureGraphic.jpg"} -> "featureGraphic"
      [] name \in {"promoGraphic.png"} -> "promoGraphic"
      [] name \in {"tvBanner"} -> "tvBanner"
      [] OTHER -> ""

RequiredSize(key) ==
    CASE key = "icon" -> <<512, 512>>
      [] key = "featureGraphic" -> <<1024, 500>>
      [] key = "promoGraphic" -> <<180, 120>>
      [] key = "tvBanner" -> <<1280, 720>>

\* The file can be opened and decoded.
Decodable(img) ==
    /\ img.status = "ok"
    /\ img.format \in {"png", "jpeg"}
    /\ img.body = "ok"

HeaderUndecodable(img) == img.status # "ok" \/ img.format = "unknown"

DimensionTexts ==
    {"icon must be 512x512", "featureGraphic must be 1024x500",
     "promoGraphic must be 180x120", "tvBanner must be 1280x720"}
OpacityTexts ==
    {"featureGraphic must be opaque", "promoGraphic must be opaque", "tvBanner must be opaque"}

Violations(path, texts) == {k \in EntriesAt(path) : errs[k].ve /\ errs[k].text \in texts}
Failures(path) == {k \in EntriesAt(path) : ~errs[k].ve}

Count(b) == IF b THEN 1 ELSE 0

\* Some pixel of the image is not fully opaque.
HasTransparency(img) ==
    CASE img.type \in {"Gray", "Gray16"} -> FALSE
      [] img.type \in {"RGBA64", "NRGBA64"} -> \E a \in img.alphas : a < 65535
      [] OTHER -> \E a \in img.alphas : a < 255

KeyedImageRule(path, key, img) ==
    /\ Failures(path) = {}
    /\ Cardinality(Violations(path, DimensionTexts))
         = Count(<<img.width, img.height>> # RequiredSize(key))
    /\ \A k \in Violations(path, DimensionTexts) :
         /\ errs[k].text \in {t \in DimensionTexts : HasPrefix(t, key)}
         /\ errs[k].args = <<img.width, img.height>>
    /\ Cardinality(Violations(path, {"icon must be a PNG"}))
         = Count(key = "icon" /\ img.format # "png")
    /\ key = "icon" => Violations(path, OpacityTexts) = {}
    /\ key # "icon" /\ img.format = "png" =>
         /\ Cardinality(Violations(path, OpacityTexts))
              = Count(HasTransparency(img))
         /\ \A k \in Violations(path, OpacityTexts) : HasPrefix(errs[k].text, key)
    /\ EntriesAt(path) = Violations(path, DimensionTexts \cup OpacityTexts \cup {"icon must be a PNG"})

\* C3: a decodable file of images/ named by one of the four keys gives a
\* dimension violation iff its size is not the required one, a format
\* violation iff it is the icon and no PNG, an opacity violation iff it is
\* one of the other three, a PNG, and has a pixel that is not fully opaque;
\* each is decided independently of the others and nothing else is reported.
C3_KeyedImages ==
    Walked =>
        \A k \in LocaleIdx : \A e \in ImageFilesOf(k) :
            LET entry == ImageEntries(k)[e]
            IN  KeyOfName(entry.name) # "" /\ Decodable(entry.img) =>
                    KeyedImageRule(Join(ImagesPathOf(k), entry.name),
                                   KeyOfName(entry.name), entry.img)

\* A 512x512 JPEG icon with the format violation alone beside a 1024x500 PNG
\* featureGraphic with a transparent pixel and the opacity violation alone.
C3_Witness ==
    /\ Walked
    /\ \E k \in LocaleIdx : \E e, f \in ImageFilesOf(k) :
        LET icon == ImageEntries(k)[e]
            graphic == ImageEntries(k)[f]
        IN  /\ icon.name = "icon.png"
            /\ icon.img = Jpeg(512, 512)
            /\ Cardinality(EntriesAt(Join(ImagesPathOf(k), icon.name))) = 1
            /\ graphic.name = "featureGraphic.jpg"
            /\ graphic.img = Png(1024, 500, "NRGBA", {0, 255})
            /\ Cardinality(EntriesAt(Join(ImagesPathOf(k), graphic.name))) = 1

\* The Screenshots directories of images/ and the files listed in them.
ShotDirsOf(k) ==
    {e \in DOMAIN ImageEntries(k) :
        /\ ImageEntries(k)[e].isDir
        /\ HasSuffix(ImageEntries(k)[e].name, "Screenshots")
        /\ ImageEntries(k)[e].dir.status = "ok"}
ShotsPath(k, e) == Join(ImagesPathOf(k), ImageEntries(k)[e].name)
Shots(k, e) == ImageEntries(k)[e].dir.entries

ScreenshotRule(path, img) ==
    LET w == img.width
        h == img.height
        longer == IF w >= h THEN w ELSE h
        shorter == IF w >= h THEN h ELSE w
    IN  /\ Failures(path) = {}
        /\ Cardinality(Violations(path, {"width should be in range 320px-3840px"}))
             = Count(w < 320 \/ w > 3840)
        /\ Cardinality(Violations(path, {"height should be in range 320px-3840px"}))
             = Count(h < 320 \/ h > 3840)
        /\ Cardinality(Violations(path, {"'max:min' edge radio should be at most 2.0"}))
             = Count(longer > 2 * shorter)
        /\ Cardinality(EntriesAt(path))
             = Count(w < 320 \/ w > 3840) + Count(h < 320 \/ h > 3840)
               + Count(longer > 2 * shorter)

\* C4: a decodable image of a Screenshots directory gives one width violation
\* iff its width is outside 320..3840, one height violation iff its height
\* is, and one ratio violation iff its longer edge is more than twice its
\* shorter edge; the three are independent and nothing else is reported.
C4_Screenshots ==
    Walked =>
        \A k \in LocaleIdx : \A e \in ShotDirsOf(k) : \A f \in DOMAIN Shots(k, e) :
            Decodable(Shots(k, e)[f].img) =>
                ScreenshotRule(Join(ShotsPath(k, e), Shots(k, e)[f].name), Shots(k, e)[f].img)

\* 640x320 beside 646x320 in one directory: no entry for the first, the
\* ratio violation alone for the second.
C4_Witness ==
    /\ Walked
    /\ \E k \in LocaleIdx : \E e \in ShotDirsOf(k) : \E f, g \in DOMAIN Shots(k, e) :
        /\ Shots(k, e)[f].img = Png(640, 320, "NRGBA", {255})
        /\ EntriesAt(Join(ShotsPath(k, e), Shots(k, e)[f].name)) = {}
        /\ Shots(k, e)[g].img = Png(646, 320, "NRGBA", {255})
        /\ Cardinality(EntriesAt(Join(ShotsPath(k, e), Shots(k, e)[g].name))) = 1

\* C7: a file of images/ whose name has none of the four keys has no report
\* entry whatever it holds, and a directory of images/ whose name does not
\* end with "Screenshots" has none either.
C7_UnknownNamesIgnored ==
    Walked =>
        \A k \in LocaleIdx : \A e \in DOMAIN ImageEntries(k) :
            LET entry == ImageEntries(k)[e]
            IN  /\ ~entry.isDir /\ KeyOfName(entry.name) = ""
                    => EntriesAt(Join(ImagesPathOf(k), entry.name)) = {}
                /\ entry.isDir /\ ~HasSuffix(entry.name, "Screenshots")
                    => EntriesUnder(Join(ImagesPathOf(k), entry.name)) = {}

\* C8: a featureGraphic, promoGraphic or tvBanner in a format without alpha
\* channel has an I/O failure entry and no "must be opaque" violation.
C8_NoAlphaIsFailure ==
    Walked =>
        \A k \in LocaleIdx : \A e \in ImageFilesOf(k) :
            LET entry == ImageEntries(k)[e]
                path == Join(ImagesPathOf(k), entry.name)
            IN  /\ KeyOfName(entry.name) \in {"featureGraphic", "promoGraphic", "tvBanner"}
                /\ Decodable(entry.img)
                /\ entry.img.format = "jpeg"
                => /\ Failures(path) # {}
                   /\ Violations(path, OpacityTexts) = {}

\* What the report holds for an image whose header cannot be decoded.
UndecodableRule(path) ==
    /\ Cardinality(EntriesAt(path)) = 1
    /\ \A k \in EntriesAt(path) : ~errs[k].ve /\ errs[k].text = "failed to read image"

\* C9: a keyed file of images/ or a file of a Screenshots directory whose
\* header cannot be decoded gives exactly one I/O failure and no violation,
\* and the files listed after it in the directory are still checked: a
\* later keyed file of the wrong size has its dimension violation, a later
\* screenshot that is too narrow its width violation.
C9_UndecodableImages ==
    Walked =>
        \A k \in LocaleIdx :
            /\ \A e \in ImageFilesOf(k) :
                LET entry == ImageEntries(k)[e]
                IN  KeyOfName(entry.name) # "" /\ HeaderUndecodable(entry.img) =>
                        /\ UndecodableRule(Join(ImagesPathOf(k), entry.name))
                        /\ \A f \in ImageFilesOf(k) :
                            LET later == ImageEntries(k)[f]
                            IN  /\ f > e
                                /\ KeyOfName(later.name) # ""
                                /\ Decodable(later.img)
                                /\ <<later.img.width, later.img.height>>
                                     # RequiredSize(KeyOfName(later.name))
                                => Violations(Join(ImagesPathOf(k), later.name),
                                              DimensionTexts) # {}
            /\ \A e \in ShotDirsOf(k) : \A f \in DOMAIN Shots(k, e) :
                ~Shots(k, e)[f].isDir /\ HeaderUndecodable(Shots(k, e)[f].img) =>
                    /\ UndecodableRule(Join(ShotsPath(k, e), Shots(k, e)[f].name))
                    /\ \A g \in DOMAIN Shots(k, e) :
                        /\ g > f
                        /\ Decodable(Shots(k, e)[g].img)
                        /\ Shots(k, e)[g].img.width < 320
                        => Violations(Join(ShotsPath(k, e), Shots(k, e)[g].name),
                                      {"width should be in range 320px-3840px"}) # {}

\* An undecodable icon.png followed by a Screenshots directory whose first
\* file is undecodable and whose second is too narrow.
C9_Witness ==
    /\ Walked
    /\ \E k \in LocaleIdx : \E e \in ImageFilesOf(k) : \E d \in ShotDirsOf(k) :
        /\ ImageEntries(k)[e].name = "icon.png"
        /\ HeaderUndecodable(ImageEntries(k)[e].img)
        /\ Cardinality(EntriesAt(Join(ImagesPathOf(k), "icon.png"))) = 1
        /\ d > e
        /\ Len(Shots(k, d)) = 2
        /\ HeaderUndecodable(Shots(k, d)[1].img)
        /\ Cardinality(EntriesAt(Join(ShotsPath(k, d), Shots(k, d)[1].name))) = 1
        /\ EntriesAt(Join(ShotsPath(k, d), Shots(k, d)[2].name)) # {}

(* C11: the ordered report is a function of the filesystem alone, the      *)
(* relative order of the title.txt, short_description.txt and              *)
(* full_description.txt entries of a locale included: whichever order the  *)
(* range over descriptiveFileLengths takes, the step that checks a         *)
(* locale's descriptive texts appends the same sequence of entries, so two *)
(* runs over the same tree report the same entries in the same order.      *)
C11_ReportDeterminedByTree ==
    [][(pc = "range" /\ pc' = "images") =>
          \A order \in TextOrders :
              errs' = errs \o checkDescriptiveTexts(localePath, fs.entries[i].texts, order)]_vars

====
